---- MODULE Spec2Model ----
(***************************************************************************)
(* State-machine model of miner-sim.py: the block ledger (Blockchain), the *)
(* two miner strategies, the round driver (simulate_mining) and the        *)
(* statistics pass (print_statistics).                                     *)
(*                                                                         *)
(* Python objects that are never mutated after construction (Block, Fork)  *)
(* are modelled by their field records; a list index i of self.blocks is   *)
(* position i + 1 of the sequence blocks.  Percentages that the code       *)
(* rounds to two decimals are kept as integers counting hundredths of a    *)
(* percent (100% is 10000).                                                *)
(***************************************************************************)
EXTENDS Integers, Sequences, FiniteSets, TLC

\* ------------------------------------------------------------------ bounds
MaxHonest == 2
MaxColluding == 2
MaxGap == 2
MaxRounds == 5
MaxForeign == 2
MaxCalls == 3

VARIABLES
    miners,         \* the roster built in __main__: a sequence of miner records
    num_rounds,     \* args.rounds
    rounds_done,    \* iterations of the loop of simulate_mining completed
    blocks,         \* Blockchain.blocks
    tip,            \* Blockchain.tip (a Block)
    colluding_tip,  \* Blockchain.colluding_tip (a Block)
    forks,          \* Blockchain.forks: block id -> Fork
    pc,             \* "running", "done", "reported" or "crashed"
    error,          \* the exception that ended the program, or "none"
    stats,          \* what print_statistics computed
    call            \* the add_block call a direct caller has pending, or NoCall

vars == <<miners, num_rounds, rounds_done, blocks, tip, colluding_tip, forks,
          pc, error, stats, call>>

\* ------------------------------------------------------------ data classes
\* Python's None, as the parent of the genesis block.
None == -1

HonestMiner(miner_id) ==
    [kind |-> "HonestMiner", miner_id |-> <<"H", miner_id>>, blocks_mined |-> 0]

ColludingMiner(miner_id, gap) ==
    [kind |-> "ColludingMiner", miner_id |-> <<"C", miner_id>>, gap |-> gap,
     blocks_mined |-> 0]

Block(id, miner_id, parent, height) ==
    [id |-> id, miner_id |-> miner_id, parent |-> parent, height |-> height]

Fork(base, tip_block) == [base |-> base, tip |-> tip_block]

depth(fork) == fork.tip.height - fork.base.height

Genesis == Block(0, <<"genesis", 0>>, None, 0)

\* The roster of __main__: the honest miners, then the colluding ones.
Roster(honest, colluding, gap) ==
    [i \in 1..honest |-> HonestMiner(i)] \o
    [i \in 1..colluding |-> ColludingMiner(i, gap)]

NoStats == [ran |-> FALSE]

NoCall == [op |-> "none"]

\* -------------------------------------------------------------- Blockchain
\* self.blocks[i]
BlockAt(i) == blocks[i + 1]

\* A faulty get_longest_chain: the first block of the ledger, not the tip.
get_longest_chain_genesis == blocks[1]

\* get_longest_chain()
get_longest_chain == tip

\* A faulty get_longest_colluding_chain: >= where the code has >.
get_longest_colluding_chain_off_by_one(gap) ==
    IF tip.height >= colluding_tip.height + gap THEN tip ELSE colluding_tip

\* A faulty get_longest_colluding_chain: the coalition never rejoins.
get_longest_colluding_chain_no_rejoin(gap) == colluding_tip

\* A faulty get_longest_colluding_chain: the coalition tolerates a deficit one
\* larger than the gap.
get_longest_colluding_chain_slack(gap) ==
    IF tip.height > colluding_tip.height + gap + 1 THEN tip ELSE colluding_tip

\* get_longest_colluding_chain(gap)
get_longest_colluding_chain(gap) ==
    IF tip.height > colluding_tip.height + gap THEN tip ELSE colluding_tip

\* self.forks.pop(key, None), the map that is left
ForksWithout(key) == [k \in (DOMAIN forks) \ {key} |-> forks[k]]

\* self.forks[key] = fork, on the map f
ForksPut(f, key, fork) ==
    [k \in (DOMAIN f) \cup {key} |-> IF k = key THEN fork ELSE f[k]]

\* A faulty "Track forks": an extended branch is recorded from its parent, not
\* from the base of the record it replaces.
track_forks_forgets_base(parent, block) ==
    IF parent # tip /\ block.height <= tip.height
    THEN ForksPut(ForksWithout(parent.id), block.id, Fork(parent, block))
    ELSE forks

\* A faulty "Track forks": a block that is not on a losing branch drops the
\* record of the branch it extends.
track_forks_prunes(parent, block) ==
    IF parent # tip /\ block.height <= tip.height
    THEN IF parent.id \in DOMAIN forks
         THEN ForksPut(ForksWithout(parent.id), block.id,
                       Fork(forks[parent.id].base, block))
         ELSE ForksPut(forks, block.id, Fork(parent, block))
    ELSE ForksWithout(parent.id)

\* A faulty "Track forks": the test is made against the main tip as it is
\* after the tip update, not as it was before the append.
track_forks_after_tip_update(parent, block) ==
    LET new_tip == IF block.height > tip.height THEN block ELSE tip
    IN  IF parent # new_tip /\ block.height <= new_tip.height
        THEN IF parent.id \in DOMAIN forks
             THEN ForksPut(ForksWithout(parent.id), block.id,
                           Fork(forks[parent.id].base, block))
             ELSE ForksPut(forks, block.id, Fork(parent, block))
        ELSE forks

\* "Track forks": the fork map after add_block appended `block` on `parent`.
track_forks(parent, block) ==
    IF parent # tip /\ block.height <= tip.height
    THEN IF parent.id \in DOMAIN forks
         THEN ForksPut(ForksWithout(parent.id), block.id,
                       Fork(forks[parent.id].base, block))
         ELSE ForksPut(forks, block.id, Fork(parent, block))
    ELSE forks

\* A faulty block construction: the height skips one level.
new_block_skips_height(miner, parent) ==
    Block(Len(blocks), miner.miner_id, parent.id, parent.height + 2)

\* A faulty block construction: the id is the last index of the list, already
\* taken by the previous block.
new_block_reuses_id(miner, parent) ==
    Block(Len(blocks) - 1, miner.miner_id, parent.id, parent.height + 1)

\* The Block that add_block constructs: block_id = len(self.blocks),
\* height = parent.height + 1, the parent kept as its id.
new_block(miner, parent) ==
    Block(Len(blocks), miner.miner_id, parent.id, parent.height + 1)

\* A faulty tip update: every appended block becomes the main tip.
advance_tip_always(block) == block

\* A faulty tip update: >= where the code has >.
advance_tip_on_tie(block) ==
    IF block.height >= tip.height THEN block ELSE tip

\* self.tip after "if height > self.tip.height: self.tip = self.blocks[-1]"
advance_tip(block) ==
    IF block.height > tip.height THEN block ELSE tip

\* A faulty coalition-tip update: the pointer is never moved.
advance_colluding_tip_never(miner, block) == colluding_tip

\* A faulty coalition-tip update: a higher block of any miner moves the pointer.
advance_colluding_tip_any_miner(miner, block) ==
    IF block.height > colluding_tip.height THEN block ELSE colluding_tip

\* self.colluding_tip after the update for a ColludingMiner's higher block
advance_colluding_tip(miner, block) ==
    IF miner.kind = "ColludingMiner" /\ block.height > colluding_tip.height
    THEN block
    ELSE colluding_tip

\* add_block(miner, parent): the ledger, the fork map and the two tips.
add_block(miner, parent) ==
    LET block == new_block(miner, parent)
    IN  /\ blocks' = Append(blocks, block)
        /\ forks' = track_forks(parent, block)
        /\ tip' = advance_tip(block)
        /\ colluding_tip' = advance_colluding_tip(miner, block)

\* ------------------------------------------------------------------ miners
\* A faulty miner: the block is mined and the count is not raised.
IncMined_never(i) == miners

\* self.blocks_mined += 1, for miner i of the roster
IncMined(i) == [miners EXCEPT ![i].blocks_mined = @ + 1]

\* One round of simulate_mining in which random.choice draws honest miner i.
HonestMineBlock(i) ==
    /\ pc = "running"
    /\ rounds_done < num_rounds
    /\ miners[i].kind = "HonestMiner"
    /\ add_block(miners[i], get_longest_chain)
    /\ miners' = IncMined(i)
    /\ rounds_done' = rounds_done + 1
    /\ UNCHANGED <<num_rounds, pc, error, stats, call>>

\* One round of simulate_mining in which random.choice draws colluding miner i.
ColludingMineBlock(i) ==
    /\ pc = "running"
    /\ rounds_done < num_rounds
    /\ miners[i].kind = "ColludingMiner"
    /\ add_block(miners[i], get_longest_colluding_chain(miners[i].gap))
    /\ miners' = IncMined(i)
    /\ rounds_done' = rounds_done + 1
    /\ UNCHANGED <<num_rounds, pc, error, stats, call>>

\* random.choice of an empty roster raises IndexError.
ChoiceFails ==
    /\ pc = "running"
    /\ rounds_done < num_rounds
    /\ Len(miners) = 0
    /\ pc' = "crashed"
    /\ error' = "IndexError"
    /\ UNCHANGED <<miners, num_rounds, rounds_done, blocks, tip, colluding_tip,
                   forks, stats, call>>

\* A faulty driver: the loop stops one round short (range(num_rounds - 1)).
SimulateReturnEarly ==
    /\ pc = "running"
    /\ rounds_done + 1 >= num_rounds
    /\ pc' = "done"
    /\ UNCHANGED <<miners, num_rounds, rounds_done, blocks, tip, colluding_tip,
                   forks, error, stats, call>>

\* The loop of simulate_mining is exhausted and the ledger is returned.
SimulateReturn ==
    /\ pc = "running"
    /\ rounds_done = num_rounds
    /\ pc' = "done"
    /\ UNCHANGED <<miners, num_rounds, rounds_done, blocks, tip, colluding_tip,
                   forks, error, stats, call>>

\* ------------------------------------------------------- print_statistics
\* round(n / d * 100, 2), in hundredths of a percent; Python rounds a tie to
\* the even neighbour.
Percent(n, d) ==
    LET q == (n * 10000) \div d
        r == (n * 10000) % d
    IN  IF 2 * r < d THEN q
        ELSE IF 2 * r > d THEN q + 1
        ELSE IF q % 2 = 0 THEN q ELSE q + 1

\* A whole-number percentage literal of the code, in hundredths of a percent.
Whole(p) == p * 100

RECURSIVE SumDepth(_)
\* abandoned += fork.depth(), over the forks keyed by `keys`
SumDepth(keys) ==
    IF keys = {} THEN 0
    ELSE LET k == CHOOSE x \in keys : TRUE
         IN  depth(forks[k]) + SumDepth(keys \ {k})

RECURSIVE MaxDepth(_)
\* max_depth = max(max_depth, fork.depth()), over the forks keyed by `keys`
MaxDepth(keys) ==
    IF keys = {} THEN 0
    ELSE LET k == CHOOSE x \in keys : TRUE
             m == MaxDepth(keys \ {k})
         IN  IF depth(forks[k]) > m THEN depth(forks[k]) ELSE m

RECURSIVE Walk(_)
\* The ids visited by the loop "while block_id is not None" started at block_id.
Walk(block_id) ==
    IF block_id = None THEN {}
    ELSE {block_id} \cup Walk(BlockAt(block_id).parent)

\* included_blocks after the walk from self.tip.id
IncludedBlocks ==
    LET visited == Walk(tip.id)
        keys == {miners[i].miner_id : i \in 1..Len(miners)} \cup
                {BlockAt(id).miner_id : id \in visited}
    IN  [m \in keys |-> Cardinality({id \in visited : BlockAt(id).miner_id = m})]

\* score, for one miner of the roster
miner_score(included_blocks, miner) ==
    IF miner.blocks_mined = 0 THEN Whole(0)
    ELSE Percent(included_blocks[miner.miner_id], miner.blocks_mined)

RECURSIVE SumOver(_, _, _)
\* The running totals of the loop over miners: sum of f[i] for the i in 1..n
\* whose miner is of kind `kind`.
SumOver(f, n, kind) ==
    IF n = 0 THEN 0
    ELSE SumOver(f, n - 1, kind) + (IF miners[n].kind = kind THEN f[n] ELSE 0)

\* honest_score, colluding_score
group_score(confirmed, mined) ==
    IF mined > 0 THEN Percent(confirmed, mined) ELSE Whole(100)

\* Everything print_statistics computes when it runs to its end.
Statistics ==
    LET included_blocks == IncludedBlocks
        n == Len(miners)
        mined == [i \in 1..n |-> miners[i].blocks_mined]
        included == [i \in 1..n |-> included_blocks[miners[i].miner_id]]
    IN  [ran |-> TRUE,
         num_forks |-> Cardinality(DOMAIN forks),
         max_depth |-> MaxDepth(DOMAIN forks),
         abandoned |-> SumDepth(DOMAIN forks),
         total |-> Len(blocks) - 1,
         abandoned_pct |-> Percent(SumDepth(DOMAIN forks), Len(blocks) - 1),
         included_blocks |-> included_blocks,
         score |-> [i \in 1..n |-> miner_score(included_blocks, miners[i])],
         honest_score |-> group_score(SumOver(included, n, "HonestMiner"),
                                      SumOver(mined, n, "HonestMiner")),
         colluding_score |-> group_score(SumOver(included, n, "ColludingMiner"),
                                         SumOver(mined, n, "ColludingMiner"))]

\* A faulty statistics pass: it empties the fork map as it reports it.
PrintStatisticsDrainsForks ==
    /\ pc = "done"
    /\ Len(blocks) - 1 # 0
    /\ pc' = "reported"
    /\ stats' = Statistics
    /\ forks' = <<>>
    /\ UNCHANGED <<miners, num_rounds, rounds_done, blocks, tip, colluding_tip,
                   error, call>>
\* blockchain.print_statistics(miners, args.verbose).  The abandonment line
\* divides by len(self.blocks) - 1: on a ledger that holds only genesis that
\* raises ZeroDivisionError, after the fork count and the maximum depth were
\* printed and before anything else is computed.
PrintStatistics ==
    /\ pc = "done"
    /\ IF Len(blocks) - 1 = 0
       THEN /\ pc' = "crashed"
            /\ error' = "ZeroDivisionError"
            /\ stats' = [ran |-> TRUE,
                         num_forks |-> Cardinality(DOMAIN forks),
                         max_depth |-> MaxDepth(DOMAIN forks)]
       ELSE /\ pc' = "reported"
            /\ error' = error
            /\ stats' = Statistics
    /\ UNCHANGED <<miners, num_rounds, rounds_done, blocks, tip, colluding_tip,
                   forks, call>>

\* --------------------------------------------------------------- the model
Init ==
    /\ \E honest \in 0..MaxHonest, colluding \in 0..MaxColluding, gap \in 0..MaxGap :
          miners = Roster(honest, colluding, gap)
    /\ num_rounds \in 0..MaxRounds
    /\ rounds_done = 0
    /\ blocks = <<Genesis>>
    /\ tip = Genesis
    /\ colluding_tip = Genesis
    /\ forks = <<>>
    /\ pc = "running"
    /\ error = "none"
    /\ stats = NoStats
    /\ call = NoCall

Next ==
    \/ \E i \in 1..Len(miners) : HonestMineBlock(i)
    \/ \E i \in 1..Len(miners) : ColludingMineBlock(i)
    \/ ChoiceFails
    \/ SimulateReturn
    \/ PrintStatistics

Spec == Init /\ [][Next]_vars

\* ---------------------------------------------- add_block called directly
\* Block objects that were never appended to the ledger.
ForeignBlocks ==
    {Block(id, <<"X", 0>>, None, height) :
        id \in 0..MaxForeign, height \in 0..MaxForeign}

\* The Block objects of self.blocks
LedgerBlocks == {blocks[k] : k \in 1..Len(blocks)}

\* A caller invokes blockchain.add_block(miners[i], parent), with a Block of
\* the ledger or with one that was never appended.
CallAddBlock(i, parent) ==
    /\ pc = "running"
    /\ call = NoCall
    /\ Len(blocks) <= MaxCalls
    /\ call' = [op |-> "add_block", miner |-> miners[i], parent |-> parent]
    /\ UNCHANGED <<miners, num_rounds, rounds_done, blocks, tip, colluding_tip,
                   forks, pc, error, stats>>

\* The body of add_block runs on the arguments of the pending call.  It reads
\* parent.height and parent.id and never looks the parent up in self.blocks.
RunAddBlock ==
    /\ pc = "running"
    /\ call # NoCall
    /\ add_block(call.miner, call.parent)
    /\ call' = NoCall
    /\ UNCHANGED <<miners, num_rounds, rounds_done, pc, error, stats>>

\* A fresh Blockchain() and one miner of each class: add_block reads of its
\* miner only the class and the miner_id.
InitAPI ==
    /\ miners = Roster(1, 1, 0)
    /\ num_rounds = 0
    /\ rounds_done = 0
    /\ blocks = <<Genesis>>
    /\ tip = Genesis
    /\ colluding_tip = Genesis
    /\ forks = <<>>
    /\ pc = "running"
    /\ error = "none"
    /\ stats = NoStats
    /\ call = NoCall

NextAPI ==
    \/ \E i \in 1..Len(miners), parent \in LedgerBlocks \cup ForeignBlocks :
          CallAddBlock(i, parent)
    \/ RunAddBlock

SpecAPI == InitAPI /\ [][NextAPI]_vars

\* ------------------------------------------------------------------ claims
\* The canonical chain: the ids on the parent path from the main tip.
Canonical == Walk(tip.id)

\* simulate_mining has returned its ledger.
RunCompleted ==
    \/ pc \in {"done", "reported"}
    \/ pc = "crashed" /\ error = "ZeroDivisionError"

\* The blocks a fork record stands for: the parent path from its tip back to,
\* and excluding, its base.
Branch(fork) == Walk(fork.tip.id) \ Walk(fork.base.id)

\* C1: after a completed run the non-genesis blocks are the non-genesis blocks
\* of the canonical chain (the main tip's height) plus the depths of all fork
\* records.
C1_BlockAccounting ==
    RunCompleted =>
        /\ Cardinality(Canonical) - 1 = tip.height
        /\ Len(blocks) - 1 = (Cardinality(Canonical) - 1) + SumDepth(DOMAIN forks)
        /\ pc = "reported" => stats.total = tip.height + stats.abandoned

C1_Witness ==
    /\ pc = "reported"
    /\ MaxDepth(DOMAIN forks) >= 2
    /\ tip.height >= 2

\* C2: the tip of every fork record is off the canonical chain, in every
\* reachable state.
C2_ForkTipsAbandoned ==
    \A k \in DOMAIN forks : forks[k].tip.id \notin Canonical

\* C3: after a completed run every block off the canonical chain lies on the
\* branch of exactly one fork record.
C3_AbandonedBlocksOnOneFork ==
    RunCompleted =>
        \A id \in (0..(Len(blocks) - 1)) \ Canonical :
            Cardinality({k \in DOMAIN forks : id \in Branch(forks[k])}) = 1

\* C4: no two distinct fork records have tips of which one is an ancestor of
\* the other.
C4_OneRecordPerBranch ==
    \A k1 \in DOMAIN forks, k2 \in DOMAIN forks :
        k1 # k2 => forks[k1].tip.id \notin Walk(forks[k2].tip.id)

\* C5: for every gap >= 0, get_longest_colluding_chain(gap) is the main tip
\* exactly when the coalition tip's deficit mainTip.height -
\* coalitionTip.height exceeds gap, and the coalition tip otherwise.
C5_ColludingChainChoice ==
    \A gap \in 0..(MaxGap + 1) :
        /\ get_longest_colluding_chain(gap) \in {tip, colluding_tip}
        /\ get_longest_colluding_chain(gap) = tip
              <=> (tip.height - colluding_tip.height > gap \/ tip = colluding_tip)
        /\ tip.height - colluding_tip.height <= gap
              => get_longest_colluding_chain(gap) = colluding_tip

C5_Witness ==
    /\ pc = "running"
    /\ tip # colluding_tip
    /\ tip.height - colluding_tip.height = 1
    /\ \E i \in 1..Len(miners) :
          miners[i].kind = "ColludingMiner" /\ miners[i].gap = 1

\* The per-miner score as C6 states it.
ClaimedScore(included_blocks, miner) ==
    IF miner.blocks_mined = 0 THEN Whole(100)
    ELSE Percent(included_blocks[miner.miner_id], miner.blocks_mined)

\* C6: the statistics pass reports a miner that mined no block with a score
\* of 100%, and every other miner with included / mined * 100.
C6_ZeroMinedScoresHundred ==
    pc = "reported" =>
        \A i \in 1..Len(miners) :
            stats.score[i] = ClaimedScore(stats.included_blocks, miners[i])

\* C7: the statistics pass on a ledger that holds only genesis completes and
\* yields 0 fork records, 0 abandoned blocks and 100% honest and coalition
\* confirmation.
C7_GenesisOnlyStatistics ==
    (stats.ran /\ Len(blocks) = 1) =>
        /\ pc = "reported"
        /\ error = "none"
        /\ stats.num_forks = 0
        /\ stats.abandoned = 0
        /\ stats.honest_score = Whole(100)
        /\ stats.colluding_score = Whole(100)

\* C8: add_block with a parent that is not in the ledger fails with an error
\* that ends the run and leaves the block list, the main tip, the coalition
\* tip and the fork map as they were.
C8_AbsentParentAborts ==
    [][(call # NoCall /\ call.parent \notin LedgerBlocks /\ call' = NoCall)
       => (pc' = "crashed" /\ UNCHANGED <<blocks, tip, colluding_tip, forks>>)]_vars

\* Scenario B: one honest and one colluding miner with the given gap, the
\* honest miner drawn in round 1 and the colluding miner in round 2.
ScenarioB(gap) ==
    /\ Len(miners) = 2
    /\ miners[1].kind = "HonestMiner"
    /\ miners[2].kind = "ColludingMiner"
    /\ miners[2].gap = gap
    /\ Len(blocks) = 3
    /\ BlockAt(1).miner_id = miners[1].miner_id
    /\ BlockAt(2).miner_id = miners[2].miner_id

\* The outcome C9 states: the colluding block sits on genesis, level with the
\* main tip, which it does not replace, and the one fork record has depth 1.
ForkedOffGenesis ==
    /\ BlockAt(2).parent = 0
    /\ BlockAt(2).height = tip.height
    /\ tip = BlockAt(1)
    /\ Cardinality(DOMAIN forks) = 1
    /\ \A k \in DOMAIN forks : depth(forks[k]) = 1

\* C9 as stated: in Scenario B with gap = 0 the colluding block forks off
\* genesis.
C9_ScenarioBOriginal == ScenarioB(0) => ForkedOffGenesis

\* C9, amended: in Scenario B with gap = 0 the colluding miner extends the
\* main tip (block 1), its block at height 2 becomes the main tip and the
\* coalition tip, and there is no fork record; the fork off genesis is the
\* outcome for every gap >= 1.
C9_ScenarioBAmended ==
    /\ ScenarioB(0) =>
          /\ BlockAt(2).parent = 1
          /\ BlockAt(2).height = 2
          /\ tip = BlockAt(2)
          /\ colluding_tip = BlockAt(2)
          /\ DOMAIN forks = {}
    /\ \A gap \in 1..MaxGap : ScenarioB(gap) => ForkedOffGenesis

C9_Witness == ScenarioB(0)

\* The roster holds honest miners only, and at least one.
HonestOnly ==
    /\ Len(miners) >= 1
    /\ \A i \in 1..Len(miners) : miners[i].kind = "HonestMiner"

\* C10: with honest miners only, the ledger is a straight line after every
\* round (block i has parent i - 1 and height i), the fork map is empty, and
\* a run of at least one round is reported with 100% honest confirmation.
C10_HonestOnlyStraightLine ==
    HonestOnly =>
        /\ \A i \in 1..(Len(blocks) - 1) :
              BlockAt(i).parent = i - 1 /\ BlockAt(i).height = i
        /\ DOMAIN forks = {}
        /\ (num_rounds >= 1 /\ stats.ran) =>
              pc = "reported" /\ stats.honest_score = Whole(100)

C10_Witness ==
    /\ HonestOnly
    /\ pc = "reported"
    /\ Len(blocks) >= 4
    /\ \A i \in 1..Len(miners) : miners[i].blocks_mined >= 1
    /\ Len(miners) = 2

\* The last block appended to the ledger.
LastBlock == blocks[Len(blocks)]

\* No honest block was ever produced: every block past genesis carries a
\* colluding miner's id.
OnlyColludingBlocks ==
    \A i \in 1..(Len(blocks) - 1) : BlockAt(i).miner_id[1] = "C"

\* Block i has parent i - 1 and height i, for every block past genesis.
StraightLine ==
    \A i \in 1..(Len(blocks) - 1) :
        BlockAt(i).parent = i - 1 /\ BlockAt(i).height = i

\* C11: while only colluding miners have produced blocks, for any gap, the
\* coalition tip and the main tip are both the most recently appended block,
\* the chain is a straight line and there is no fork record.
C11_OnlyColludingStraightLine ==
    OnlyColludingBlocks =>
        /\ tip = LastBlock
        /\ colluding_tip = LastBlock
        /\ StraightLine
        /\ DOMAIN forks = {}

C11_Witness ==
    /\ OnlyColludingBlocks
    /\ Len(blocks) = 5
    /\ \E i \in 1..Len(miners) : miners[i].kind = "HonestMiner"
    /\ \E i \in 1..Len(miners) :
          miners[i].kind = "ColludingMiner" /\ miners[i].gap = 2

\* C12: genesis has height 0 and no parent, and every other block is one
\* level above its parent.
C12_HeightIsParentPlusOne ==
    /\ BlockAt(0).height = 0
    /\ BlockAt(0).parent = None
    /\ \A i \in 1..(Len(blocks) - 1) :
          /\ BlockAt(i).parent # None
          /\ BlockAt(i).height = BlockAt(BlockAt(i).parent).height + 1

C12_Witness ==
    /\ Len(blocks) >= 5
    /\ \E i \in 1..(Len(blocks) - 1) : BlockAt(i).parent # i - 1
    /\ \E i \in 1..(Len(blocks) - 1) : BlockAt(i).height >= 3

RECURSIVE WalkSeq(_)
\* The ids in the order the loop "while block_id is not None" visits them.
WalkSeq(block_id) ==
    IF block_id = None THEN <<>>
    ELSE <<block_id>> \o WalkSeq(BlockAt(block_id).parent)

\* C13: the walk from the main tip visits tip.height + 1 blocks, of heights
\* tip.height, tip.height - 1, ..., 0, ends at genesis, and visits no block
\* twice.
C13_WalkFromTip ==
    LET w == WalkSeq(tip.id)
    IN  /\ Len(w) = tip.height + 1
        /\ \A k \in 1..Len(w) : BlockAt(w[k]).height = tip.height - (k - 1)
        /\ w[Len(w)] = 0
        /\ \A j \in 1..Len(w), k \in 1..Len(w) : j # k => w[j] # w[k]
        /\ {w[k] : k \in 1..Len(w)} = Walk(tip.id)

C13_Witness ==
    /\ tip.height >= 3
    /\ Len(blocks) > tip.height + 1
    /\ \E k \in 1..Len(WalkSeq(tip.id)) : WalkSeq(tip.id)[k] # tip.height - (k - 1)

\* A step that appends a block to the ledger.
Appended == Len(blocks') = Len(blocks) + 1

\* C14: every append either leaves the main tip as it is or makes the new
\* block, of height exactly the old tip's height + 1, the main tip; on no step
\* does the main tip's height decrease.
C14_TipHeightMonotone ==
    [][/\ tip'.height >= tip.height
       /\ Appended =>
             \/ tip' = tip
             \/ /\ tip' = blocks'[Len(blocks')]
                /\ tip'.height = tip.height + 1
       /\ ~Appended => tip' = tip]_vars

\* Both kinds of append have happened: the tip was advanced, and the last
\* block was appended without replacing it.
C14_Witness ==
    /\ tip.height >= 2
    /\ tip # LastBlock
    /\ LastBlock.height = tip.height

\* C15: the main tip is a block of the greatest height in the ledger and,
\* of the blocks at that height, the one with the smallest id.
C15_TipIsFirstHighest ==
    /\ tip \in LedgerBlocks
    /\ \A b \in LedgerBlocks :
          /\ b.height <= tip.height
          /\ b.height = tip.height => tip.id <= b.id

C15_Witness ==
    /\ tip.height >= 2
    /\ \E b \in LedgerBlocks : b.height = tip.height /\ b.id > tip.id

\* C16: the statistics pass leaves the block list, both tips, the fork map and
\* every miner's mined count as they were, so a second pass over the final
\* ledger computes exactly the results the first one reported.
C16_StatisticsReadOnly ==
    /\ [][(pc = "done" /\ pc' # "done") =>
             UNCHANGED <<blocks, tip, colluding_tip, forks, miners>>]_vars
    /\ [](pc = "reported" => stats = Statistics)

C16_Witness ==
    /\ pc = "reported"
    /\ stats.num_forks >= 1
    /\ stats.abandoned >= 2
    /\ \E i \in 1..Len(miners) : stats.score[i] \notin {Whole(0), Whole(100)}

\* C17: on every append the number of fork records does not decrease; a
\* record leaves the map only in the append that stores, under the new
\* block's id, a record with the same base; every other record is untouched;
\* and an append that advances the main tip leaves the whole map as it was.
C17_ForksNeverDeleted ==
    [][LET old == DOMAIN forks
           new == DOMAIN forks'
       IN  /\ Cardinality(new) >= Cardinality(old)
           /\ \A k \in old \ new :
                 /\ Appended
                 /\ new \ old = {Len(blocks)}
                 /\ forks'[Len(blocks)].base = forks[k].base
           /\ \A k \in old \cap new : forks'[k] = forks[k]
           /\ tip' # tip => new = old]_vars

\* A record was replaced by an extension, and the main tip has since advanced
\* past a recorded branch.
C17_Witness ==
    /\ \E k \in DOMAIN forks : depth(forks[k]) >= 2
    /\ \E k \in DOMAIN forks : forks[k].tip.height < tip.height

\* C18: with a non-empty roster the driver performs exactly num_rounds
\* rounds, each appending exactly one block, and then returns a ledger of
\* num_rounds + 1 blocks; it skips no round and does not end early.  While
\* the driver runs a step is always possible and every step of the loop
\* raises rounds_done, which num_rounds bounds: the loop ends.
C18_ExactlyNRounds ==
    /\ [](Len(miners) >= 1 =>
             /\ Len(blocks) = rounds_done + 1
             /\ rounds_done <= num_rounds
             /\ pc = "running" => ENABLED Next
             /\ pc # "running" =>
                   /\ rounds_done = num_rounds
                   /\ Len(blocks) = num_rounds + 1
                   /\ error \in {"none", "ZeroDivisionError"})
    /\ [][/\ rounds_done' # rounds_done
             => rounds_done' = rounds_done + 1 /\ Appended /\ pc = "running"
          /\ Appended => rounds_done' = rounds_done + 1
          /\ (pc = "running" /\ pc' = "running")
             => rounds_done' = rounds_done + 1]_vars

C18_Witness ==
    /\ Len(miners) >= 2
    /\ pc = "done"
    /\ num_rounds = MaxRounds
    /\ Len(blocks) = MaxRounds + 1

\* C19: the block at position i of the ledger has id i (genesis 0), so ids
\* are unique, and every block past genesis names as parent a block of
\* strictly smaller id, already in the ledger.
C19_SequentialIds ==
    /\ \A i \in 0..(Len(blocks) - 1) : BlockAt(i).id = i
    /\ \A b \in LedgerBlocks, c \in LedgerBlocks : b.id = c.id => b = c
    /\ BlockAt(0).parent = None
    /\ \A i \in 1..(Len(blocks) - 1) : BlockAt(i).parent \in 0..(i - 1)

C19_Witness ==
    /\ Len(blocks) = MaxRounds + 1
    /\ \E i \in 1..(Len(blocks) - 1) : BlockAt(i).parent < i - 2

\* The step C20 is about: a block was appended whose parent was not the main
\* tip and whose height did not exceed the main tip's.
AppendedOnLosingBranch ==
    /\ Appended
    /\ BlockAt(blocks'[Len(blocks')].parent) # tip
    /\ blocks'[Len(blocks')].height <= tip.height

\* C20: on such an append, (a) a record keyed by the parent's id is removed
\* and one with the same base and the new block as tip is stored under the
\* new block's id, the number of records staying the same and the branch's
\* depth growing by exactly 1; (b) failing that, a record from the parent to
\* the new block, of depth 1, is inserted under the new block's id.  No other
\* record changes, and in every state each record's key is its tip's id and
\* its depth is at least 1.
C20_ForkBookkeeping ==
    /\ [][AppendedOnLosingBranch =>
             LET block  == blocks'[Len(blocks')]
                 parent == BlockAt(block.parent)
             IN  /\ block.id \in DOMAIN forks'
                 /\ forks'[block.id].tip = block
                 /\ \A k \in DOMAIN forks' \ {block.id} :
                       k \in DOMAIN forks /\ forks'[k] = forks[k]
                 /\ IF parent.id \in DOMAIN forks
                    THEN /\ DOMAIN forks' =
                               (DOMAIN forks \ {parent.id}) \cup {block.id}
                         /\ Cardinality(DOMAIN forks') = Cardinality(DOMAIN forks)
                         /\ forks'[block.id].base = forks[parent.id].base
                         /\ depth(forks'[block.id]) = depth(forks[parent.id]) + 1
                    ELSE /\ DOMAIN forks' = DOMAIN forks \cup {block.id}
                         /\ Cardinality(DOMAIN forks') = Cardinality(DOMAIN forks) + 1
                         /\ forks'[block.id].base = parent
                         /\ depth(forks'[block.id]) = 1]_vars
    /\ [](\A k \in DOMAIN forks : forks[k].tip.id = k /\ depth(forks[k]) >= 1)

\* The last append extended a recorded branch: its record, inserted at depth
\* 1 by an earlier append, was replaced by one of depth 2 or more.
C20_Witness ==
    /\ LastBlock.id \in DOMAIN forks
    /\ depth(forks[LastBlock.id]) >= 2
    /\ forks[LastBlock.id].base.id # 0

\* The block that a step appends, and the block it names as parent.
NewBlock == blocks'[Len(blocks')]

NewParent == BlockAt(NewBlock.parent)

\* C21: an append whose parent is the main tip of the moment leaves the fork
\* map as it was and makes the new block the main tip; every block of an
\* honest miner is such an append.
C21_TipAppendKeepsForks ==
    [][Appended =>
          /\ NewParent = tip => (forks' = forks /\ tip' = NewBlock)
          /\ NewBlock.miner_id[1] = "H" => NewParent = tip]_vars

\* An honest block was appended on the main tip while fork records existed.
C21_Witness ==
    /\ LastBlock.miner_id[1] = "H"
    /\ tip = LastBlock
    /\ tip.height >= 2
    /\ \E k \in DOMAIN forks : depth(forks[k]) >= 2

\* The roster's miner that carries the given miner_id.
MinerOf(miner_id) ==
    miners[CHOOSE i \in 1..Len(miners) : miners[i].miner_id = miner_id]

\* C22: when a colluding miner of gap g >= 0 mines, the parent it extends has
\* height >= tip.height - g, so its block is created at a height >=
\* tip.height - g + 1, tip being the main tip before the append; and in every
\* state of a running driver the parent a colluding miner would choose
\* satisfies that bound.
C22_GapBoundsDeficit ==
    /\ [][(Appended /\ NewBlock.miner_id[1] = "C") =>
             LET g == MinerOf(NewBlock.miner_id).gap
             IN  /\ NewParent.height >= tip.height - g
                 /\ NewBlock.height >= tip.height - g + 1]_vars
    /\ [](\A i \in 1..Len(miners) :
             miners[i].kind = "ColludingMiner" =>
                get_longest_colluding_chain(miners[i].gap).height
                    >= tip.height - miners[i].gap)

\* The last block is a colluding miner's, mined on a private branch at the
\* largest deficit its gap of 2 permits.
C22_Witness ==
    /\ LastBlock.miner_id[1] = "C"
    /\ MinerOf(LastBlock.miner_id).gap = 2
    /\ tip # LastBlock
    /\ LastBlock.height = tip.height - 2 + 1
    /\ LastBlock.parent # 0

\* The blocks of the ledger when it held n blocks: the list only grows.
Prefix(n) == {blocks[k] : k \in 1..n}

\* The first block of the greatest height among the given blocks.
FirstHighest(bs) ==
    CHOOSE b \in bs :
        \A c \in bs : c.height < b.height \/ (c.height = b.height /\ b.id <= c.id)

\* The main tip when the ledger held n blocks.
TipAt(n) == FirstHighest(Prefix(n))

\* The coalition tip when the ledger held n blocks.
ColludingTipAt(n) ==
    LET cs == {b \in Prefix(n) : b.miner_id[1] = "C"}
    IN  IF cs = {} THEN blocks[1] ELSE FirstHighest(cs)

\* Block i was mined by a colluding miner at a moment when the main tip was
\* more than the gap above the coalition tip.
Rejoined(i) ==
    /\ BlockAt(i).miner_id[1] = "C"
    /\ TipAt(i).height > ColludingTipAt(i).height + MinerOf(BlockAt(i).miner_id).gap

\* A colluding miner mines while the main tip is more than its gap above the
\* coalition tip.
RejoinStep ==
    /\ Appended
    /\ NewBlock.miner_id[1] = "C"
    /\ tip.height > colluding_tip.height + MinerOf(NewBlock.miner_id).gap

\* C23: a colluding miner that mines while tip.height > colluding_tip.height
\* + gap extends the main tip; after the append the main tip and the
\* coalition tip are both the new block and the fork map is as it was.  The
\* branch the coalition left is not extended again: no block appended later,
\* by any miner, has the old coalition tip or an ancestor of it as parent.
\* (TipAt and ColludingTipAt, which give the tips of earlier moments, are
\* checked to give the current tips in every state.)
C23_RejoinStep ==
    /\ [][RejoinStep =>
             /\ NewParent = tip
             /\ tip' = NewBlock
             /\ colluding_tip' = NewBlock
             /\ forks' = forks]_vars
    /\ [](/\ TipAt(Len(blocks)) = tip
          /\ ColludingTipAt(Len(blocks)) = colluding_tip
          /\ \A i \in 1..(Len(blocks) - 1) :
                Rejoined(i) =>
                   /\ BlockAt(i).parent = TipAt(i).id
                   /\ \A j \in (i + 1)..(Len(blocks) - 1) :
                         BlockAt(j).parent \notin Walk(ColludingTipAt(i).id))

\* The last block is a rejoin that left a private branch off the canonical
\* chain, recorded in the fork map.
C23_Witness ==
    /\ Rejoined(LastBlock.id)
    /\ ColludingTipAt(LastBlock.id).id \notin Canonical
    /\ ColludingTipAt(LastBlock.id).id \in DOMAIN forks
    /\ tip = LastBlock
    /\ colluding_tip = LastBlock

\* The blocks of the ledger that colluding miners produced.
ColludingBlocks == {b \in LedgerBlocks : b.miner_id[1] = "C"}

\* C24: the coalition tip is genesis exactly while no colluding block exists
\* and otherwise a colluding miner's block, of the greatest height among the
\* colluding blocks and of the smallest id among those of that height; its
\* height never exceeds the main tip's; no step lowers its height; an append
\* either leaves it alone or sets it to the new block, and an honest miner's
\* append leaves it alone.
C24_CoalitionTip ==
    /\ [](/\ colluding_tip \in LedgerBlocks
          /\ ColludingBlocks = {} <=> colluding_tip = BlockAt(0)
          /\ ColludingBlocks # {} =>
                /\ colluding_tip \in ColludingBlocks
                /\ \A b \in ColludingBlocks :
                      /\ b.height <= colluding_tip.height
                      /\ b.height = colluding_tip.height
                            => colluding_tip.id <= b.id
          /\ colluding_tip.height <= tip.height)
    /\ [][/\ colluding_tip'.height >= colluding_tip.height
          /\ colluding_tip' # colluding_tip =>
                (Appended /\ colluding_tip' = NewBlock)
          /\ (Appended /\ NewBlock.miner_id[1] = "H") =>
                colluding_tip' = colluding_tip]_vars

\* Honest miners have carried the main tip past a coalition tip that is not
\* the coalition's first block, and the last block is an honest one.
C24_Witness ==
    /\ Cardinality(ColludingBlocks) >= 2
    /\ colluding_tip.height >= 2
    /\ colluding_tip.height < tip.height
    /\ LastBlock.miner_id[1] = "H"

\* Every colluding miner of the roster has gap 0, and there is at least one.
GapZero ==
    /\ \E i \in 1..Len(miners) : miners[i].kind = "ColludingMiner"
    /\ \A i \in 1..Len(miners) :
          miners[i].kind = "ColludingMiner" => miners[i].gap = 0

\* C25: with gap = 0 for all colluding miners, in every reachable state the
\* parent a colluding miner would choose is the main tip, the ledger is a
\* straight line ending in the main tip, the coalition tip is on the
\* canonical chain and the fork map is empty; and every append, of either
\* kind of miner, is on the main tip.
C25_GapZeroStraightLine ==
    /\ [](GapZero =>
             /\ \A i \in 1..Len(miners) :
                   miners[i].kind = "ColludingMiner" =>
                      get_longest_colluding_chain(miners[i].gap) = tip
             /\ StraightLine
             /\ tip = LastBlock
             /\ colluding_tip.id \in Canonical
             /\ DOMAIN forks = {})
    /\ [][(GapZero /\ Appended) => NewParent = tip]_vars

\* Both kinds of miner have mined, honest blocks after colluding ones and
\* colluding blocks after honest ones, over all the rounds.
C25_Witness ==
    /\ GapZero
    /\ Len(blocks) = MaxRounds + 1
    /\ \E i \in 1..(Len(blocks) - 2) :
          BlockAt(i).miner_id[1] = "H" /\ BlockAt(i + 1).miner_id[1] = "C"
    /\ \E i \in 1..(Len(blocks) - 2) :
          BlockAt(i).miner_id[1] = "C" /\ BlockAt(i + 1).miner_id[1] = "H"
    /\ colluding_tip # tip
    /\ Len(miners) = MaxHonest + MaxColluding

\* C26: after a completed run every roster miner's included count is at most
\* its mined count, the included counts of the roster sum to the main tip's
\* height (genesis is counted once, under its own producer), and the mined
\* counts of the roster sum to the number of rounds; what a reported run
\* printed are these tallies, with every score between 0% and 100%.
C26_TalliesConsistent ==
    RunCompleted =>
        LET included_blocks == IncludedBlocks
            n == Len(miners)
            mined == [i \in 1..n |-> miners[i].blocks_mined]
            included == [i \in 1..n |-> included_blocks[miners[i].miner_id]]
        IN  /\ \A i \in 1..n : included[i] <= mined[i]
            /\ SumOver(included, n, "HonestMiner")
                  + SumOver(included, n, "ColludingMiner") = tip.height
            /\ included_blocks[BlockAt(0).miner_id] = 1
            /\ SumOver(mined, n, "HonestMiner")
                  + SumOver(mined, n, "ColludingMiner") = num_rounds
            /\ pc = "reported" =>
                  /\ stats.included_blocks = included_blocks
                  /\ \A i \in 1..n : stats.score[i] \in Whole(0)..Whole(100)
                  /\ stats.honest_score \in Whole(0)..Whole(100)
                  /\ stats.colluding_score \in Whole(0)..Whole(100)

\* A reported run in which blocks were abandoned: one miner has some but not
\* all of its blocks included, another has all of them, a third mined none.
C26_Witness ==
    /\ pc = "reported"
    /\ tip.height < num_rounds
    /\ \E i \in 1..Len(miners) :
          /\ stats.included_blocks[miners[i].miner_id] >= 1
          /\ stats.included_blocks[miners[i].miner_id] < miners[i].blocks_mined
    /\ \E i \in 1..Len(miners) :
          /\ miners[i].blocks_mined >= 2
          /\ stats.included_blocks[miners[i].miner_id] = miners[i].blocks_mined
    /\ \E i \in 1..Len(miners) : miners[i].blocks_mined = 0
====
